---- MODULE Spec2Model ----
(***************************************************************************)
(* Glia Functions tools: the command line client (glia-function-cli.py)   *)
(* and the MCP tool server (glia_functions_mcp_server.py) that reuses its *)
(* functions.  The model covers the layered configuration (file, process  *)
(* environment, per-invocation overrides), the update workflow (token     *)
(* exchange, version creation, task polling, deployment), the commands    *)
(* that issue one request, and the configuration store (configure,        *)
(* select, current, clear) shared by two processes.                       *)
(*                                                                         *)
(* Python dictionaries are functions whose DOMAIN is the set of keys that *)
(* are present; d.get(k) is Get(d, k); Python truthiness is Truthy.       *)
(***************************************************************************)
EXTENDS Naturals, Sequences, FiniteSets, TLC

VARIABLES
    file,        \* ~/.glia/config.json as a dictionary (<<>>: no file)
    osenv,       \* the process environment variables
    impl,        \* "cli": glia-function-cli.py, "mcp": the MCP server
    peer,        \* a second CLI process on the same file: its ConfigManager
    clock,       \* time.time()
    calls,       \* the last ConfigManager calls, oldest first
    config,      \* config_manager.config, the in-memory configuration
    args,        \* the arguments of the command being run
    pc,          \* where the command is
    environment, \* local: the resolved environment name
    credentials, \* local: the credentials dictionary (<<>>: None)
    site_id,     \* local: the site id used by create / list
    function_id, \* local: the resolved function id
    token,       \* local: the bearer token and the base URL that issued it
    reqs,        \* the HTTP requests issued by the command, in order
    observed,    \* the task payloads received by the status polls, in order
    status,      \* local: the status read from the last status poll
    refetched,   \* the payload received by the poll that reads the entity
    versionId,   \* local: the version id handed to deployFunction
    result,      \* what the command hands back: the dictionary the MCP tool
                 \* returns, the JSON the CLI prints (<<>>: nothing yet)
    temp_file,   \* the temporary code file of the MCP update tool
    exit         \* NONE while running; 0 / 1: exit code (MCP: returned / raised)

vars == <<file, peer, clock, calls, osenv, impl, config, args, pc, environment, credentials,
          site_id, function_id, token, reqs, observed, status, refetched,
          versionId, result, temp_file, exit>>

NONE == "<none>"

(***************************************************************************)
(* Bounds of the model.                                                    *)
(***************************************************************************)
MaxPolls == 3    \* status polls one command may issue before the model stops

(***************************************************************************)
(* Python helpers.                                                         *)
(***************************************************************************)
Truthy(v) == v \notin {NONE, ""}

Get(d, k) == IF k \in DOMAIN d THEN d[k] ELSE NONE

GetDefault(d, k, dflt) == IF k \in DOMAIN d THEN d[k] ELSE dflt

Put(d, k, v) == [x \in DOMAIN d \cup {k} |-> IF x = k THEN v ELSE d[x]]

Or(a, b) == IF Truthy(a) THEN a ELSE b

(***************************************************************************)
(* ENVIRONMENTS and the URL every environment-aware request function       *)
(* computes: ENVIRONMENTS.get(environment, ENVIRONMENTS['production']).    *)
(***************************************************************************)
ENVIRONMENTS ==
    ("production"    :> [api_url |-> "https://api.glia.com"]) @@
    ("beta"          :> [api_url |-> "https://api.beta.glia.com"]) @@
    ("production-eu" :> [api_url |-> "https://api.glia.eu"]) @@
    ("beta-eu"       :> [api_url |-> "https://api.beta.glia.eu"])

\* Mutant: ENVIRONMENTS[environment], which has no URL for an unknown name.
EnvUrl_strict(name) ==
    IF name \in DOMAIN ENVIRONMENTS
    THEN ENVIRONMENTS[name].api_url
    ELSE "<KeyError>"

EnvUrl(name) ==
    IF name \in DOMAIN ENVIRONMENTS
    THEN ENVIRONMENTS[name].api_url
    ELSE ENVIRONMENTS["production"].api_url

\* checkTaskStatus / getFunctionTask: ENVIRONMENTS.get("production")
ProductionUrl == ENVIRONMENTS["production"].api_url

(***************************************************************************)
(* ConfigManager.                                                          *)
(***************************************************************************)
ConfigKeys == {"api_key_id", "api_key_secret", "site_id", "environment"}

\* env_config of load_config: what each key reads from the process environment
env_config(env) ==
    [api_key_id     |-> Get(env, "api_key_id"),
     api_key_secret |-> Get(env, "api_key_secret"),
     site_id        |-> Get(env, "site_id"),
     environment    |-> GetDefault(env, "GLIA_ENV", "production")]

\* Mutant: every environment variable that is set replaces the file's value.
load_config_env_wins(f, env) ==
    LET ec == env_config(env)
        set == {k \in ConfigKeys : Truthy(ec[k])}
    IN  [k \in DOMAIN f \cup set |-> IF k \in set THEN ec[k] ELSE f[k]]

\* Mutant: environment variables fill every absent field, whether or not the
\* file already holds both key fields.
load_config_always_fill(f, env) ==
    LET ec == env_config(env)
        fill == {k \in ConfigKeys : Truthy(ec[k]) /\ ~Truthy(Get(f, k))}
    IN  [k \in DOMAIN f \cup fill |-> IF k \in fill THEN ec[k] ELSE f[k]]

load_config(f, env) ==
    IF ~Truthy(Get(f, "api_key_id")) \/ ~Truthy(Get(f, "api_key_secret"))
    THEN LET ec == env_config(env)
             fill == {k \in ConfigKeys : Truthy(ec[k]) /\ ~Truthy(Get(f, k))}
         IN  [k \in DOMAIN f \cup fill |-> IF k \in fill THEN ec[k] ELSE f[k]]
    ELSE f

\* get_credentials: <<>> stands for None
\* Mutant: one of the two key fields is enough.
get_credentials_either(c) ==
    IF ~Truthy(Get(c, "api_key_id")) /\ ~Truthy(Get(c, "api_key_secret"))
    THEN <<>>
    ELSE [api_key_id     |-> Get(c, "api_key_id"),
          api_key_secret |-> Get(c, "api_key_secret"),
          site_ids       |-> IF Truthy(Get(c, "site_id"))
                             THEN <<c["site_id"]>> ELSE <<>>]

get_credentials(c) ==
    IF ~Truthy(Get(c, "api_key_id")) \/ ~Truthy(Get(c, "api_key_secret"))
    THEN <<>>
    ELSE [api_key_id     |-> c["api_key_id"],
          api_key_secret |-> c["api_key_secret"],
          site_ids       |-> IF Truthy(Get(c, "site_id"))
                             THEN <<c["site_id"]>> ELSE <<>>]

get_environment(c) == GetDefault(c, "environment", "production")

HasCurrentFunction(c) == "current_function" \in DOMAIN c

\* get_function_id_from_context / MCP: function_id or (current or {}).get('id')
\* Mutant: the current function is preferred to the explicit id.
get_function_id_context_first(explicit, c) ==
    IF HasCurrentFunction(c) THEN c["current_function"].id
    ELSE IF Truthy(explicit) THEN explicit
    ELSE NONE

get_function_id_from_context(explicit, c) ==
    IF Truthy(explicit) THEN explicit
    ELSE IF HasCurrentFunction(c) THEN c["current_function"].id
    ELSE NONE

\* What set_current_function stores under 'current_function'.
\* Mutant: the description is stored only when the function has one.
FunctionContext_as_given(function_data, now) ==
    [k \in (DOMAIN function_data \cap {"id", "name", "description"})
            \cup {"current_version_id", "site_id", "selected_at"} |->
        IF k = "selected_at" THEN now ELSE Get(function_data, k)]

FunctionContext(function_data, now) ==
    [id                 |-> function_data.id,
     name               |-> function_data.name,
     description        |-> GetDefault(function_data, "description", ""),
     current_version_id |-> Get(function_data, "current_version_id"),
     site_id            |-> Get(function_data, "site_id"),
     selected_at        |-> now]

\* function_data['id'], function_data['name']: KeyError when absent
HasIdAndName(function_data) == {"id", "name"} \subseteq DOMAIN function_data

set_current_function(c, function_data, now) ==
    Put(c, "current_function", FunctionContext(function_data, now))

\* get_current_function: <<>> stands for None
get_current_function(c) ==
    IF HasCurrentFunction(c) THEN c["current_function"] ELSE <<>>

\* del self.config['current_function']
clear_current_function(c) ==
    [k \in DOMAIN c \ {"current_function"} |-> c[k]]

\* save_config: json.dump(self.config) replaces the whole file; on IOError
\* the file stays as it was.  The result is the file afterwards.
\* Mutant: only the fields held in memory are replaced, the others are kept.
save_config_merge(c, f, ok) ==
    IF ok THEN [k \in DOMAIN c \cup DOMAIN f |-> IF k \in DOMAIN c THEN c[k] ELSE f[k]]
    ELSE f

save_config(c, f, ok) == IF ok THEN c ELSE f

\* setup_interactive: an empty answer keeps the current value; a required
\* field that stays empty ends the setup before save_config.
setup_interactive(c, answers) ==
    LET c1 == IF answers.api_key_id # ""
              THEN Put(c, "api_key_id", answers.api_key_id) ELSE c
        c2 == IF answers.api_key_secret # ""
              THEN Put(c1, "api_key_secret", answers.api_key_secret) ELSE c1
        c3 == IF answers.site_id # ""
              THEN Put(c2, "site_id", answers.site_id) ELSE c2
        c4 == IF answers.environment \in DOMAIN ENVIRONMENTS
              THEN Put(c3, "environment", answers.environment) ELSE c3
    IN  IF answers.api_key_id = "" /\ ~Truthy(Get(c, "api_key_id"))
        THEN [config |-> c, saves |-> FALSE]
        ELSE IF answers.api_key_secret = "" /\ ~Truthy(Get(c1, "api_key_secret"))
        THEN [config |-> c1, saves |-> FALSE]
        ELSE [config |-> c4, saves |-> TRUE]

\* configure_glia_functions (MCP): ValueError on an unknown environment,
\* otherwise every given field is set and the configuration is saved.
configure_glia_functions(c, params) ==
    IF params.environment \notin DOMAIN ENVIRONMENTS
    THEN [config |-> c, saves |-> FALSE]
    ELSE LET c1 == Put(c, "api_key_id", params.api_key_id)
             c2 == Put(c1, "api_key_secret", params.api_key_secret)
             c3 == IF Truthy(params.site_id)
                   THEN Put(c2, "site_id", params.site_id) ELSE c2
         IN  [config |-> Put(c3, "environment", params.environment),
              saves |-> TRUE]

(***************************************************************************)
(* Inputs: configuration files, process environments, command arguments,  *)
(* server responses.                                                       *)
(***************************************************************************)
\* A function description as the server returns it (the selected function).
CtxFunction == [id |-> "fn_ctx", name |-> "ctx"]

FileOf(kid, sec, site, env, cf) ==
    LET vals == [api_key_id |-> kid, api_key_secret |-> sec,
                 site_id |-> site, environment |-> env]
        keys == {k \in ConfigKeys : vals[k] # NONE}
    IN  [k \in keys \cup (IF cf THEN {"current_function"} ELSE {}) |->
            IF k = "current_function" THEN FunctionContext(CtxFunction, 0)
            ELSE vals[k]]

OsEnvOf(kid, sec, site, env) ==
    LET vals == [api_key_id |-> kid, api_key_secret |-> sec,
                 site_id |-> site, GLIA_ENV |-> env]
    IN  [k \in {x \in DOMAIN vals : vals[x] # NONE} |-> vals[k]]

\* Configurations the update workflow is explored from.
Files ==
    {FileOf(NONE, NONE, NONE, NONE, FALSE),
     FileOf("kid_f", "sec_f", "site_f", NONE, FALSE),
     FileOf("kid_f", "sec_f", "site_f", "beta-eu", TRUE),
     FileOf("kid_f", "sec_f", NONE, "staging", TRUE),
     FileOf("kid_f", NONE, "site_f", NONE, FALSE),
     FileOf("kid_f", "sec_f", "site_f", "", FALSE)}

OsEnvs ==
    {OsEnvOf(NONE, NONE, NONE, NONE),
     OsEnvOf("kid_e", "sec_e", "site_e", "beta")}

EnvNames == DOMAIN ENVIRONMENTS

\* --environment has choices=ENVIRONMENTS.keys(); an MCP tool takes any string.
EnvOverrides(i) ==
    {NONE} \cup EnvNames \cup (IF i = "mcp" THEN {"staging"} ELSE {})

NoArgs ==
    [operation |-> NONE, environment |-> NONE, site_id |-> NONE,
     function_id |-> NONE, code |-> FALSE, env_file |-> NONE,
     auto_deploy |-> FALSE, extra |-> NONE]

\* args.env_file: absent, a file holding JSON, a file json.load rejects
EnvFiles == {NONE, "json", "not_json"}

UpdateArgs(i) ==
    {[operation |-> "update", environment |-> e, site_id |-> NONE,
      function_id |-> f, code |-> c, env_file |-> ef, auto_deploy |-> ad,
      extra |-> NONE] :
        e \in EnvOverrides(i), f \in {NONE, "fn_arg"},
        c \in (IF i = "cli" THEN BOOLEAN ELSE {TRUE}),
        ef \in (IF i = "cli" THEN EnvFiles ELSE {"json"}),
        ad \in (IF i = "cli" THEN {TRUE} ELSE BOOLEAN)}

\* The commands that issue one request after the token exchange.
\*   scoped:  the command names a function
\*   context: the CLI handler resolves the function with
\*            get_function_id_from_context (otherwise it reads args.function_id)
\*   extra:   the CLI handler requires a second argument (--version_id,
\*            --task_id, --start_date and --end_date, --name or --description,
\*            --endpoint and --payload)
\*   routed:  the request function takes the environment (otherwise it uses
\*            ENVIRONMENTS.get("production"))
\*   checked: the request function calls response.raise_for_status()
\*   tool:    the MCP server has a tool for it whose function_id is optional
\*            (invoke, create, list: a tool without function_id)
\*   site:    the handler requires the site id (--site_id or the configured
\*            one) and sends it in the request
Command(scoped, context, extra, routed, checked, tool, site) ==
    [scoped |-> scoped, context |-> context, extra |-> extra,
     routed |-> routed, checked |-> checked, tool |-> tool, site |-> site]

Commands ==
    ("deploy"          :> Command(TRUE, TRUE, TRUE, TRUE, TRUE, TRUE, FALSE)) @@
    ("get-info"        :> Command(TRUE, TRUE, FALSE, FALSE, FALSE, TRUE, FALSE)) @@
    ("get-logs"        :> Command(TRUE, TRUE, TRUE, TRUE, TRUE, TRUE, FALSE)) @@
    ("recent-logs"     :> Command(TRUE, TRUE, FALSE, TRUE, TRUE, TRUE, FALSE)) @@
    ("list-versions"   :> Command(TRUE, TRUE, FALSE, TRUE, TRUE, TRUE, FALSE)) @@
    ("get-version"     :> Command(TRUE, FALSE, TRUE, FALSE, FALSE, TRUE, FALSE)) @@
    ("get-code"        :> Command(TRUE, FALSE, TRUE, FALSE, FALSE, TRUE, FALSE)) @@
    ("task-status"     :> Command(TRUE, FALSE, TRUE, FALSE, FALSE, FALSE, FALSE)) @@
    ("update-metadata" :> Command(TRUE, FALSE, TRUE, TRUE, TRUE, FALSE, FALSE)) @@
    ("invoke"          :> Command(FALSE, FALSE, TRUE, FALSE, FALSE, TRUE, FALSE)) @@
    ("create"          :> Command(FALSE, FALSE, TRUE, TRUE, TRUE, TRUE, TRUE)) @@
    ("list"            :> Command(FALSE, FALSE, FALSE, TRUE, TRUE, TRUE, TRUE))

\* The MCP tools take their other arguments as required parameters.
\* --site_id / site_id is an argument of create and list only.
CommandArgs(i) ==
    {a \in
        {[operation |-> op, environment |-> e, site_id |-> st,
          function_id |-> f, code |-> FALSE, env_file |-> NONE,
          auto_deploy |-> FALSE, extra |-> x] :
            op \in {o \in DOMAIN Commands : i = "cli" \/ Commands[o].tool},
            e \in {NONE, "beta"}, f \in {NONE, "", "fn_arg"},
            x \in (IF i = "cli" THEN {NONE, "v1"} ELSE {"v1"}),
            st \in {NONE, "site_o"}} :
        /\ a.site_id # NONE => Commands[a.operation].site
        /\ a.function_id # NONE => Commands[a.operation].scoped}

\* Responses of the endpoints of these commands: a result, or a non-2xx
\* status with an error body.
EndpointResponses == {"ok", "http_error"}

\* Responses of POST /operator_authentication/tokens
AuthResponses == {"token", "no_token", "http_error", "unparseable"}

\* Responses of POST /functions/{id}/versions
VersionResponses == {"task", "no_task", "http_error"}

\* Task payloads.  An entity is represented by its id: NoEntity when the
\* payload has no entity, NoId when the entity has no id.
NoEntity == "<no entity>"
NoId == "<no id>"
Statuses == {"processing", "completed", "failed", "cancelled", NONE}
PollPayloads ==
    {[status |-> "processing", entity |-> NoEntity]} \cup
    {[status |-> s, entity |-> e] :
        s \in Statuses \ {"processing"}, e \in {NoEntity, "v9"}}
RefetchPayloads ==
    {[status |-> s, entity |-> e] :
        s \in {"processing", "completed"}, e \in {NoEntity, NoId, "v9", "v7"}}
\* response.json() raising instead of returning a payload
Raises == [status |-> "<raises>", entity |-> NoEntity]
NoPayload == [status |-> NONE, entity |-> NONE]

\* Responses of POST /functions/{id}/deployments
DeployResponses == {"ok", "http_error"}

NoToken == [value |-> NONE, url |-> NONE]

\* The JSON bodies a handler keeps.  The version-creation response is the
\* task as it was created: it carries the task reference "self" or not.
TaskUrl == "/functions/fn/tasks/t1"
CreationBody(resp) == IF resp = "task" THEN [self |-> TaskUrl] ELSE <<>>
DeployBody(v) == [deployed_version |-> v]
EndpointBody(resp) == [response |-> resp]

\* A request and the response it received.
Request(kind, url, bearer, version, resp) ==
    [kind |-> kind, url |-> url, bearer |-> bearer, version_id |-> version,
     resp |-> resp]

NA == "-"

\* getToken: payload["site_ids"] = credentials.get('site_ids')
\* Mutant: the token is requested for the site the command works on.
TokenRequest_for_target(creds, url, resp) ==
    Request("token", url, NONE, NA, resp) @@
    [site_ids |-> IF Truthy(site_id) THEN <<site_id>> ELSE <<>>]

TokenRequest(creds, url, resp) ==
    Request("token", url, NONE, NA, resp) @@ [site_ids |-> creds.site_ids]

\* createFunction: payload["site_id"]; listFunctions: params['site_ids[]']
SiteRequest(kind, url, bearer, site, resp) ==
    Request(kind, url, bearer, NA, resp) @@ [site_id |-> site]

(***************************************************************************)
(* The state before a command: the module has been imported               *)
(* (config_manager = ConfigManager()).                                     *)
(***************************************************************************)
Idle ==
    /\ args = NoArgs
    /\ pc = "idle"
    /\ environment = NONE
    /\ credentials = <<>>
    /\ site_id = NONE
    /\ function_id = NONE
    /\ token = NoToken
    /\ reqs = <<>>
    /\ observed = <<>>
    /\ status = NONE
    /\ refetched = NoPayload
    /\ versionId = NONE
    /\ result = <<>>
    /\ temp_file = "none"
    /\ exit = NONE

\* No second process is running.
NoPeer == [pc |-> "idle", operation |-> NONE, config |-> <<>>]

Init ==
    /\ file \in Files
    /\ osenv \in OsEnvs
    /\ impl \in {"cli", "mcp"}
    /\ config = load_config(file, osenv)
    /\ peer = NoPeer
    /\ clock = 0
    /\ calls = <<>>
    /\ Idle

(***************************************************************************)
(* The update command.  Each action runs the code up to and including the *)
(* next HTTP exchange; the response is the action's input.                *)
(***************************************************************************)
\* response.raise_for_status() in getToken, updateFunction, deployFunction
\* Mutant: the status code is not looked at (as in the first version of the CLI).
raise_for_status_unchecked(resp) == FALSE

raise_for_status(resp) == resp = "http_error"

\* The loop condition:  while status == "processing"
\* Mutant: an absent status keeps the loop going as well.
StillProcessing_or_absent(st) == st \in {"processing", NONE}

\* Mutant: the loop gives up after two attempts.
StillProcessing_two_attempts(st) == st = "processing" /\ Len(observed) < 1

\* Mutant: the loop is left on the first response.
StillProcessing_never(st) == FALSE

StillProcessing(st) == st = "processing"

Running == pc \in {"auth", "submit", "poll", "refetch", "deploy", "call"}

Terminate(code) ==
    /\ pc' = "done"
    /\ exit' = code

\* update_glia_function:  finally: os.unlink(temp_file_path)
\* Mutant: the file is removed on the return path only.
Finally_on_return ==
    temp_file' = IF pc' = "done" /\ exit' = 0 /\ temp_file = "written"
                 THEN "removed" ELSE temp_file

Finally ==
    temp_file' = IF pc' = "done" /\ temp_file = "written"
                 THEN "removed" ELSE temp_file

\* CLI: module import (load_config), main() up to the getToken call of
\* case 'update'.
CliUpdateStart(a) ==
    /\ impl = "cli"
    /\ pc = "idle"
    /\ args' = a
    /\ config' = load_config(file, osenv)
    /\ environment' = Or(a.environment, get_environment(config'))
    /\ credentials' = get_credentials(config')
    /\ IF DOMAIN credentials' = {}
       THEN \* if not credentials: return
            /\ Terminate(0)
            /\ UNCHANGED <<site_id, function_id>>
       ELSE /\ site_id' = Or(a.site_id, Get(config', "site_id"))
            /\ function_id' = get_function_id_from_context(a.function_id, config')
            /\ IF /\ Truthy(function_id')
                  /\ a.code
                  /\ Truthy(a.env_file)
               THEN pc' = "auth" /\ exit' = NONE
               ELSE Terminate(1)    \* sys.exit(1)
    /\ UNCHANGED <<file, peer, clock, calls, osenv, impl, token, reqs, observed, status,
                   refetched, versionId, result, temp_file>>

\* MCP: update_glia_function up to the getToken call.
McpUpdateStart(a) ==
    /\ impl = "mcp"
    /\ pc = "idle"
    /\ args' = a
    /\ credentials' = get_credentials(config)
    /\ IF DOMAIN credentials' = {}
       THEN \* raise ValueError("No credentials configured...")
            /\ Terminate(1)
            /\ UNCHANGED <<environment, function_id>>
       ELSE /\ environment' = Or(a.environment, get_environment(config))
            /\ function_id' = get_function_id_from_context(a.function_id, config)
            /\ IF Truthy(function_id')
               THEN pc' = "auth" /\ exit' = NONE
               ELSE Terminate(1)    \* raise ValueError("Function ID is required")
    /\ UNCHANGED <<file, peer, clock, calls, osenv, impl, config, site_id, token, reqs, observed,
                   status, refetched, versionId, result, temp_file>>

\* The function a handler targets.
\* Mutant: every CLI handler resolves the function through the context.
TargetFunction_from_context(a, c) ==
    IF ~Commands[a.operation].scoped THEN NA
    ELSE get_function_id_from_context(a.function_id, c)

TargetFunction(a, c) ==
    IF ~Commands[a.operation].scoped THEN NA
    ELSE IF impl = "mcp" \/ Commands[a.operation].context
    THEN get_function_id_from_context(a.function_id, c)
    ELSE Or(a.function_id, NONE)

\* CLI: module import (load_config), main() up to the getToken call of a
\* command that issues one request.
CliCommandStart(a) ==
    /\ impl = "cli"
    /\ pc = "idle"
    /\ args' = a
    /\ config' = load_config(file, osenv)
    /\ environment' = Or(a.environment, get_environment(config'))
    /\ credentials' = get_credentials(config')
    /\ IF DOMAIN credentials' = {}
       THEN \* if not credentials: return
            /\ Terminate(0)
            /\ UNCHANGED <<site_id, function_id>>
       ELSE /\ site_id' = Or(a.site_id, Get(config', "site_id"))
            /\ function_id' = TargetFunction(a, config')
            /\ IF /\ Truthy(function_id')
                  /\ Commands[a.operation].extra => Truthy(a.extra)
                  /\ Commands[a.operation].site => Truthy(site_id')
               THEN pc' = "auth" /\ exit' = NONE
               ELSE Terminate(1)    \* sys.exit(1)
    /\ UNCHANGED <<file, peer, clock, calls, osenv, impl, token, reqs,
                   observed, status, refetched, versionId, result, temp_file>>

\* MCP: a tool up to its getToken call.
McpCommandStart(a) ==
    /\ impl = "mcp"
    /\ pc = "idle"
    /\ args' = a
    /\ credentials' = get_credentials(config)
    /\ IF DOMAIN credentials' = {}
       THEN \* raise ValueError("No credentials configured...")
            /\ Terminate(1)
            /\ UNCHANGED <<environment, site_id, function_id>>
       ELSE /\ environment' = Or(a.environment, get_environment(config))
            \* target_site_id = site_id or config_manager.config.get('site_id')
            /\ site_id' = IF Commands[a.operation].site
                          THEN Or(a.site_id, Get(config, "site_id"))
                          ELSE site_id
            /\ function_id' = TargetFunction(a, config)
            /\ IF /\ Truthy(function_id')
                  /\ Commands[a.operation].site => Truthy(site_id')
               THEN pc' = "auth" /\ exit' = NONE
               ELSE Terminate(1)    \* raise ValueError("... is required")
    /\ UNCHANGED <<file, peer, clock, calls, osenv, impl, config,
                   token, reqs, observed, status, refetched, versionId, result, temp_file>>

\* The request of the command and what the handler makes of the response:
\* a request function with raise_for_status exits with 1 on a non-2xx
\* status, the others return the body, which the handler prints or returns.
CallEndpoint(resp) ==
    /\ pc = "call"
    /\ LET url == IF Commands[args.operation].routed
                  THEN EnvUrl(environment) ELSE ProductionUrl
       IN  reqs' = Append(reqs,
                IF Commands[args.operation].site
                THEN SiteRequest(args.operation, url, token.value, site_id, resp)
                ELSE Request(args.operation, url, token.value, args.extra, resp))
    /\ IF Commands[args.operation].checked /\ raise_for_status(resp)
       THEN Terminate(1) /\ result' = result
       ELSE Terminate(0) /\ result' = EndpointBody(resp)
    /\ UNCHANGED <<file, peer, clock, calls, osenv, impl, config, args,
                   environment, credentials, site_id, function_id, token,
                   observed, status, refetched, versionId, temp_file>>

\* if "token" not in result: sys.exit(1)
\* Mutant: result.get("token") is returned without the test.
TokenIn_unchecked(resp) == resp \in {"token", "no_token"}

TokenIn(resp) == resp = "token"

\* getToken: one POST to the resolved environment; every failure is
\* sys.exit(1).  In the CLI json.load(args.env_file) follows.
GetToken(resp) ==
    /\ pc = "auth"
    /\ reqs' = Append(reqs, TokenRequest(credentials, EnvUrl(environment), resp))
    /\ IF ~raise_for_status(resp) /\ TokenIn(resp)
       THEN /\ token' = [value |-> "tok", url |-> EnvUrl(environment)]
            /\ IF args.operation # "update"
               THEN pc' = "call" /\ exit' = NONE
               ELSE IF impl = "cli" /\ args.env_file = "not_json"
               THEN Terminate(1)
               ELSE pc' = "submit" /\ exit' = NONE
       ELSE /\ token' = token
            /\ Terminate(1)
    \* MCP update: with tempfile.NamedTemporaryFile(delete=False): f.write(code)
    /\ temp_file' = IF impl = "mcp" /\ pc' = "submit" THEN "written"
                    ELSE temp_file
    /\ UNCHANGED <<file, peer, clock, calls, osenv, impl, config, args, environment, credentials,
                   site_id, function_id, observed, status, refetched, versionId, result>>

\* updateFunction, then task_url = result.get("self").
UpdateFunction(resp) ==
    /\ pc = "submit"
    /\ reqs' = Append(reqs, Request("create_version", EnvUrl(environment),
                                    token.value, NA, resp))
    /\ IF raise_for_status(resp)
       THEN Terminate(1)
       ELSE IF resp = "task"
            THEN pc' = "poll" /\ exit' = NONE
            ELSE \* no "self": in the CLI checkTaskStatus(None, token) raises
                 \* TypeError before any request; in the MCP tool
                 \* "if task_url:" is skipped and result is returned
                 IF impl = "cli" THEN Terminate(1) ELSE Terminate(0)
    \* MCP: result = updateFunction(...), the dictionary returned in the end
    /\ result' = IF impl = "mcp" /\ ~raise_for_status(resp)
                 THEN CreationBody(resp) ELSE result
    /\ Finally
    /\ UNCHANGED <<file, peer, clock, calls, osenv, impl, config, args, environment, credentials,
                   site_id, function_id, token, observed, status, refetched,
                   versionId>>

\* What follows the status loop: the CLI always reads the entity; the MCP
\* tool has  if auto_deploy and status == "completed"  and otherwise returns.
\* Mutant: the CLI goes on only when the task completed.
AfterLoop_completed_only(st) ==
    IF st = "completed" /\ (impl = "cli" \/ args.auto_deploy)
    THEN pc' = "refetch" /\ exit' = NONE
    ELSE Terminate(IF impl = "cli" THEN 1 ELSE 0)

AfterLoop(st) ==
    IF impl = "cli"
    THEN pc' = "refetch" /\ exit' = NONE
    ELSE IF args.auto_deploy /\ st = "completed"
         THEN pc' = "refetch" /\ exit' = NONE
         ELSE Terminate(0)

\* One status poll: checkTaskStatus(task_url, token).get("status") in the CLI,
\* getFunctionTask(...).get("status") in the MCP tool, and what the loop
\* condition makes of it.
CheckTaskStatus(p) ==
    /\ pc = "poll"
    /\ Len(observed) < MaxPolls
    /\ reqs' = Append(reqs, Request("poll", ProductionUrl, token.value, NA,
                                    IF p = Raises THEN "raises" ELSE "payload"))
    /\ observed' = Append(observed, p)
    /\ IF p = Raises
       THEN status' = status /\ Terminate(1)
       ELSE /\ status' = p.status
            /\ IF StillProcessing(p.status)
               THEN pc' = "poll" /\ exit' = NONE    \* time.sleep, poll again
               ELSE AfterLoop(p.status)
    /\ Finally
    /\ UNCHANGED <<file, peer, clock, calls, osenv, impl, config, args, environment, credentials,
                   site_id, function_id, token, refetched, versionId, result>>

\* The id read from the re-fetched payload: .get('entity').get('id')
\* Mutant: the id is taken from the payload the loop ended on.
ExtractVersion_from_loop(p) ==
    LET o == observed[Len(observed)]
    IN  IF o.entity \in {NoEntity, NoId} THEN NONE ELSE o.entity

ExtractVersion(p) ==
    IF p.entity \in {NoEntity, NoId} THEN NONE ELSE p.entity

\* Whether a deployment follows the extraction: the CLI deploys whatever
\* .get('id') returned; the MCP tool has  if version_id:
\* Mutant: the CLI checks the id as well.
DeploysVersion_checked(v) == Truthy(v)

DeploysVersion(v) == impl = "cli" \/ Truthy(v)

\* The poll after the loop, which reads the entity:
\* CLI  versionId = checkTaskStatus(task_url, token).get('entity').get('id')
\* MCP  version_id = task_result.get('entity', {}).get('id'); if version_id:
\* (a payload without the key "entity" is NoEntity)
FetchEntity(p) ==
    /\ pc = "refetch"
    /\ reqs' = Append(reqs, Request("poll", ProductionUrl, token.value, NA,
                                    IF p = Raises THEN "raises" ELSE "payload"))
    /\ refetched' = p
    /\ IF p = Raises
       THEN versionId' = versionId /\ Terminate(1)
       ELSE IF impl = "cli" /\ p.entity = NoEntity
            THEN versionId' = versionId /\ Terminate(1)  \* None.get('id')
            ELSE /\ versionId' = ExtractVersion(p)
                 /\ IF DeploysVersion(versionId')
                    THEN pc' = "deploy" /\ exit' = NONE
                    ELSE Terminate(0)
    /\ Finally
    /\ UNCHANGED <<file, peer, clock, calls, osenv, impl, config, args, environment, credentials,
                   site_id, function_id, token, observed, status, result>>

\* deployFunction(function_id, versionId, token, environment)
DeployFunction(resp) ==
    /\ pc = "deploy"
    /\ reqs' = Append(reqs, Request("deploy", EnvUrl(environment),
                                    token.value, versionId, resp))
    /\ IF raise_for_status(resp) THEN Terminate(1) ELSE Terminate(0)
    \* MCP: result['deployment'] = deploy_result; return result
    \* CLI: print(json.dumps(deploy_result, indent=2))
    /\ result' = IF raise_for_status(resp) THEN result
                 ELSE IF impl = "mcp"
                 THEN Put(result, "deployment", DeployBody(versionId))
                 ELSE DeployBody(versionId)
    /\ Finally
    /\ UNCHANGED <<file, peer, clock, calls, osenv, impl, config, args, environment, credentials,
                   site_id, function_id, token, observed, status, refetched,
                   versionId>>

\* except KeyboardInterrupt: sys.exit(1)
\* Mutant: no handler, the interpreter ends the process with 130.
Interrupt_unhandled ==
    /\ impl = "cli"
    /\ Running
    /\ pc' = "interrupted"
    /\ exit' = 130
    /\ UNCHANGED <<file, peer, clock, calls, osenv, impl, config, args,
                   environment, credentials, site_id, function_id, token,
                   reqs, observed, status, refetched, versionId, result, temp_file>>

Interrupt ==
    /\ impl = "cli"
    /\ Running
    /\ pc' = "interrupted"
    /\ exit' = 1
    /\ UNCHANGED <<file, peer, clock, calls, osenv, impl, config, args, environment, credentials,
                   site_id, function_id, token, reqs, observed, status,
                   refetched, versionId, result, temp_file>>

\* The process has exited (CLI) or the tool has returned (MCP): the next
\* command starts from the persisted file and, in the MCP server, from the
\* configuration the server holds in memory.
Finish ==
    /\ pc \in {"done", "interrupted"}
    /\ args' = NoArgs
    /\ pc' = "idle"
    /\ environment' = NONE
    /\ credentials' = <<>>
    /\ site_id' = NONE
    /\ function_id' = NONE
    /\ token' = NoToken
    /\ reqs' = <<>>
    /\ observed' = <<>>
    /\ status' = NONE
    /\ refetched' = NoPayload
    /\ versionId' = NONE
    /\ result' = <<>>
    /\ temp_file' = "none"
    /\ exit' = NONE
    /\ UNCHANGED <<file, peer, clock, calls, osenv, impl, config>>

Next ==
    \/ \E a \in UpdateArgs("cli") : CliUpdateStart(a)
    \/ \E a \in UpdateArgs("mcp") : McpUpdateStart(a)
    \/ \E a \in CommandArgs("cli") : CliCommandStart(a)
    \/ \E a \in CommandArgs("mcp") : McpCommandStart(a)
    \/ \E r \in EndpointResponses : CallEndpoint(r)
    \/ \E r \in AuthResponses : GetToken(r)
    \/ \E r \in VersionResponses : UpdateFunction(r)
    \/ \E p \in PollPayloads \cup {Raises} : CheckTaskStatus(p)
    \/ \E p \in RefetchPayloads \cup {Raises} : FetchEntity(p)
    \/ \E r \in DeployResponses : DeployFunction(r)
    \/ Interrupt
    \/ Finish

Spec == Init /\ [][Next]_vars

(***************************************************************************)
(* Properties of the update workflow.                                      *)
(***************************************************************************)
Requests(kind) == SelectSeq(reqs, LAMBDA r : r.kind = kind)

NumRequests(kind) == Len(Requests(kind))

AllProcessing == \A i \in DOMAIN observed : observed[i].status = "processing"

TerminalObserved == \E i \in DOMAIN observed : observed[i].status # "processing"

\* C1: in an update the version-creation request precedes every task poll;
\* no deployment
\* request has been issued while every status observed so far is
\* "processing" (so a deployment follows a poll that returned another
\* status); a command issues at most one deployment request.
C1_RequestOrder ==
    args.operation = "update" =>
        /\ \A i \in DOMAIN reqs :
              reqs[i].kind = "poll" =>
                 \E j \in 1..(i - 1) : reqs[j].kind = "create_version"
        /\ \A i \in DOMAIN reqs :
              reqs[i].kind = "deploy" =>
                 /\ TerminalObserved
                 /\ \E j \in 1..(i - 1) : reqs[j].kind = "poll"
        /\ AllProcessing => NumRequests("deploy") = 0
        /\ NumRequests("deploy") <= 1

C1_Witness ==
    /\ NumRequests("deploy") = 1
    /\ Len(observed) >= 2
    /\ observed[1].status = "processing"

\* The scripted task of C2: the status polls return processing, processing,
\* completed.
Scripted ==
    /\ Len(observed) = 3
    /\ observed[1].status = "processing"
    /\ observed[2].status = "processing"
    /\ observed[3].status = "completed"

Deployed(v) ==
    /\ NumRequests("deploy") = 1
    /\ Requests("deploy")[1].version_id = v

\* C2 as stated: on the scripted task, with entity {id: "v9"} in the terminal
\* payload and in every later one, a command that ran to its end has issued
\* exactly 3 task polls and one deployment of "v9".
C2_ThreePolls ==
    (/\ Scripted
     /\ observed[3].entity = "v9"
     /\ refetched \in {NoPayload, observed[3]}
     /\ pc = "done" /\ exit = 0
     /\ impl = "cli" \/ args.auto_deploy)
    => /\ NumRequests("poll") = 3
       /\ Deployed("v9")

\* C2, amended: on the scripted task the status loop stops on the third
\* response; one more poll request reads the entity (4 in all) whenever the
\* workflow goes on to deploy, which the CLI always does and the MCP tool does
\* when auto_deploy is set; when that fourth response carries entity
\* {id: "v9"} a command that ran to its end has issued exactly one deployment
\* request, for "v9".
C2_FourPolls ==
    Scripted =>
       /\ pc # "poll"
       /\ NumRequests("poll") = 3 + (IF refetched = NoPayload THEN 0 ELSE 1)
       /\ (pc = "done" /\ exit = 0 /\ (impl = "cli" \/ args.auto_deploy))
             => NumRequests("poll") = 4
       /\ (pc = "done" /\ refetched.entity = "v9") => Deployed("v9")

C2_Witness ==
    /\ Scripted
    /\ refetched.entity = "v9"
    /\ pc = "done"
    /\ exit = 0
    /\ NumRequests("poll") = 4
    /\ Deployed("v9")

\* C3 as stated: once a poll has returned a status other than "processing"
\* no further poll request is issued, and the version id deployed is the one
\* of that terminal observation.
C3_NoPollAfterTerminal ==
    TerminalObserved =>
       /\ NumRequests("poll") = Len(observed)
       /\ \A i \in DOMAIN reqs :
             reqs[i].kind = "deploy" =>
                reqs[i].version_id = observed[Len(observed)].entity

\* C3, amended: once a status poll has returned a status other than
\* "processing" the status loop is never resumed (that observation is the last
\* one of the loop); at most one further poll request is issued, the one that
\* reads the entity, whose status is not looked at (it may be "processing");
\* the version id deployed is the id of that re-fetched payload (none when the
\* entity has no id).
C3_OneFetchAfterTerminal ==
    TerminalObserved =>
       /\ pc # "poll"
       /\ \A i \in 1..(Len(observed) - 1) : observed[i].status = "processing"
       /\ NumRequests("poll") = Len(observed) + (IF refetched = NoPayload THEN 0 ELSE 1)
       /\ \A i \in DOMAIN reqs :
             reqs[i].kind = "deploy" =>
                /\ refetched.entity # NoEntity
                /\ reqs[i].version_id =
                      (IF refetched.entity = NoId THEN NONE ELSE refetched.entity)

C3_Witness ==
    /\ TerminalObserved
    /\ refetched.status = "processing"
    /\ refetched.entity = "v7"
    /\ observed[Len(observed)].entity = "v9"
    /\ Deployed("v7")

\* C4: the loop has no attempt limit and no timeout.  While every response
\* so far has status "processing" the command has not ended (unless it was
\* interrupted), has issued no deployment request and no request other than
\* the status polls, and its next step is another status poll (or the
\* interrupt).
OnlyProcessingSoFar == Len(observed) >= 1 /\ AllProcessing

C4_KeepsPolling ==
    /\ [](OnlyProcessingSoFar =>
             /\ pc \in {"poll", "interrupted"}
             /\ pc = "poll" => exit = NONE
             /\ NumRequests("deploy") = 0
             /\ NumRequests("poll") = Len(observed))
    /\ [][(OnlyProcessingSoFar /\ pc = "poll") =>
             \/ pc' = "interrupted"
             \/ /\ Len(observed') = Len(observed) + 1
                /\ NumRequests("poll")' = NumRequests("poll") + 1]_vars

C4_Witness ==
    /\ Len(observed) >= 3
    /\ AllProcessing
    /\ pc = "poll"

\* The status loop has ended on a payload (not on an exception) and the
\* command has not been interrupted.
LoopEnded ==
    /\ TerminalObserved
    /\ observed[Len(observed)] # Raises
    /\ pc \in {"refetch", "deploy", "done"}

GoesOnToExtract == pc = "refetch" \/ refetched # NoPayload

\* C5 as stated: whatever the terminal status, the workflow (the MCP tool
\* with auto_deploy) goes on to extract the version id.
C5_StatusBlind ==
    (LoopEnded /\ (impl = "cli" \/ args.auto_deploy)) => GoesOnToExtract

\* C5, amended: the CLI update command does not distinguish terminal
\* statuses: after any status other than "processing" it re-fetches the
\* payload and, when the payload has an entity, issues the deployment
\* request.  The MCP tool goes on to extract and deploy only when the status
\* is exactly "completed" (and auto_deploy is set); after any other terminal
\* status it returns without a deployment request.
C5_StatusBlindCli ==
    /\ LoopEnded =>
          (GoesOnToExtract <=>
              (impl = "cli" \/ (args.auto_deploy /\ status = "completed")))
    /\ (impl = "cli" /\ pc = "done" /\ refetched.entity \in {NoId, "v9", "v7"})
          => NumRequests("deploy") = 1
    /\ (impl = "mcp" /\ LoopEnded /\ status # "completed")
          => (pc = "done" /\ exit = 0 /\ NumRequests("deploy") = 0)

C5_Witness ==
    /\ impl = "cli"
    /\ status = "failed"
    /\ pc = "done"
    /\ Deployed("v9")

\* The re-fetched payload yields no version id.
NoVersionExtracted ==
    /\ pc = "done"
    /\ refetched \notin {NoPayload, Raises}
    /\ refetched.entity \in {NoEntity, NoId}

\* C6 as stated: when the payload yields no version id (entity absent, or
\* entity without an id) a deployment request carrying the missing id is
\* still issued.
C6_DeploysMissingId == NoVersionExtracted => Deployed(NONE)

\* C6, amended: in the CLI, a payload whose entity has no id still leads to
\* one deployment request carrying the missing (null) version id, while a
\* payload with no entity aborts the command with exit code 1 before any
\* deployment request; the MCP tool issues no deployment request in either
\* case and returns normally.
C6_MissingId ==
    NoVersionExtracted =>
       IF impl = "cli"
       THEN IF refetched.entity = NoId
            THEN Deployed(NONE)
            ELSE NumRequests("deploy") = 0 /\ exit = 1
       ELSE NumRequests("deploy") = 0 /\ exit = 0

C6_Witness ==
    /\ impl = "cli"
    /\ NoVersionExtracted
    /\ refetched.entity = NoId
    /\ Deployed(NONE)

\* C7: every request that carries the bearer token goes to the base URL the
\* token was obtained from.
C7_TokenEnvironment ==
    \A i \in DOMAIN reqs :
       reqs[i].bearer # NONE => reqs[i].url = token.url

\* C8: no request of the workflow is retried.  A failed token exchange is
\* the command's only request; a non-2xx version creation is followed by no
\* poll and no deployment; a non-2xx deployment is the last request; each
\* ends the command as failed.
Failed == pc = "done" /\ exit = 1

C8_FailFast ==
    /\ \A k \in {"token", "create_version", "deploy"} : NumRequests(k) <= 1
    /\ \A i \in DOMAIN reqs :
          /\ (reqs[i].kind = "token" /\ reqs[i].resp # "token")
                => (Failed /\ Len(reqs) = 1)
          /\ (reqs[i].kind = "create_version" /\ reqs[i].resp = "http_error")
                => (Failed /\ i = Len(reqs) /\ NumRequests("poll") = 0
                    /\ NumRequests("deploy") = 0)
          /\ (reqs[i].kind = "deploy" /\ reqs[i].resp = "http_error")
                => (Failed /\ i = Len(reqs))

C8_Witness ==
    /\ Failed
    /\ NumRequests("deploy") = 1
    /\ Requests("deploy")[1].resp = "http_error"

(***************************************************************************)
(* Resolution of credentials and environment: every combination of file,  *)
(* process environment and per-invocation overrides, up to the point      *)
(* where the command is about to issue its first request.                 *)
(***************************************************************************)
AllFiles ==
    {FileOf(kid, sec, site, env, FALSE) :
        kid \in {NONE, "kid_f"}, sec \in {NONE, "sec_f"},
        site \in {NONE, "", "site_f"}, env \in {NONE, "beta-eu", "staging"}}

AllOsEnvs ==
    {OsEnvOf(kid, sec, site, env) :
        kid \in {NONE, "kid_e"}, sec \in {NONE, "sec_e"},
        site \in {NONE, "site_e"}, env \in {NONE, "", "beta"}}

ResolveArgs(i) ==
    {[operation |-> "update", environment |-> e, site_id |-> st,
      function_id |-> "fn_arg", code |-> TRUE, env_file |-> "json",
      auto_deploy |-> TRUE, extra |-> NONE] :
        e \in {NONE, "production-eu"},
        st \in (IF i = "cli" THEN {NONE, "site_o"} ELSE {NONE})}

InitConfig ==
    /\ peer = NoPeer
    /\ clock = 0
    /\ calls = <<>>
    /\ file \in AllFiles
    /\ osenv \in AllOsEnvs
    /\ impl \in {"cli", "mcp"}
    /\ config = load_config(file, osenv)
    /\ Idle

NextConfig ==
    \/ \E a \in ResolveArgs("cli") : CliUpdateStart(a)
    \/ \E a \in ResolveArgs("mcp") : McpUpdateStart(a)

SpecConfig == InitConfig /\ [][NextConfig]_vars

\* The value of the highest-precedence source that is present.
FirstPresent(override, persisted, variable) ==
    IF Truthy(override) THEN override
    ELSE IF Truthy(persisted) THEN persisted
    ELSE IF Truthy(variable) THEN variable
    ELSE NONE

AsList(v) == IF Truthy(v) THEN <<v>> ELSE <<>>

Resolved == pc = "auth"

\* C9 as stated: every resolved field is the value of the highest-precedence
\* source that is present: override, then file, then environment variable
\* (the environment defaulting to production).
C9_Precedence ==
    Resolved =>
       /\ environment =
             Or(FirstPresent(args.environment, Get(file, "environment"),
                             Get(osenv, "GLIA_ENV")), "production")
       /\ credentials.api_key_id =
             FirstPresent(NONE, Get(file, "api_key_id"), Get(osenv, "api_key_id"))
       /\ credentials.api_key_secret =
             FirstPresent(NONE, Get(file, "api_key_secret"),
                          Get(osenv, "api_key_secret"))
       /\ credentials.site_ids =
             AsList(FirstPresent(args.site_id, Get(file, "site_id"),
                                 Get(osenv, "site_id")))

\* The environment-variable layer exists only when the file lacks api_key_id
\* or api_key_secret.
FileHasBothKeys ==
    Truthy(Get(file, "api_key_id")) /\ Truthy(Get(file, "api_key_secret"))

Variable(name) == IF FileHasBothKeys THEN NONE ELSE Get(osenv, name)

\* C9, amended: every resolved field is the value of the highest-precedence
\* source that is present, where (1) the environment variables form a layer
\* only when the file lacks api_key_id or api_key_secret, and are ignored
\* altogether when the file holds both; (2) only the environment and the
\* site id used by create / list have an override; the key fields and the
\* site id of the credentials (the token's site_ids) come from the file, then
\* the environment variable, whatever the site id override is.
C9_PrecedenceAsBuilt ==
    Resolved =>
       /\ environment =
             Or(FirstPresent(args.environment, Get(file, "environment"),
                             Variable("GLIA_ENV")), "production")
       /\ credentials.api_key_id =
             FirstPresent(NONE, Get(file, "api_key_id"), Variable("api_key_id"))
       /\ credentials.api_key_secret =
             FirstPresent(NONE, Get(file, "api_key_secret"),
                          Variable("api_key_secret"))
       /\ credentials.site_ids =
             AsList(FirstPresent(NONE, Get(file, "site_id"), Variable("site_id")))
       /\ impl = "cli" =>
             AsList(site_id) =
                AsList(FirstPresent(args.site_id, Get(file, "site_id"),
                                    Variable("site_id")))

\* Both deviations at once: the file holds both keys and no environment, so
\* GLIA_ENV is ignored; the site override does not reach the credentials.
C9_Witness ==
    /\ Resolved
    /\ FileHasBothKeys
    /\ "environment" \notin DOMAIN file
    /\ Get(osenv, "GLIA_ENV") = "beta"
    /\ args.environment = NONE
    /\ environment = "production"
    /\ args.site_id = "site_o"
    /\ site_id = "site_o"
    /\ credentials.site_ids = <<"site_f">>

\* C10: a non-empty value of the file is never replaced by an environment
\* variable: the loaded configuration holds the file's value for it.
C10_FileWins ==
    \A k \in ConfigKeys :
       Truthy(Get(file, k)) => (k \in DOMAIN config /\ config[k] = file[k])

\* The file lacks the secret, so the environment variables are merged, and
\* the file's site id and environment stand against the variables'.
C10_Witness ==
    /\ Resolved
    /\ ~FileHasBothKeys
    /\ Get(file, "site_id") = "site_f"
    /\ Get(osenv, "site_id") = "site_e"
    /\ Get(file, "environment") = "beta-eu"
    /\ Get(osenv, "GLIA_ENV") = "beta"
    /\ config["site_id"] = "site_f"
    /\ config["environment"] = "beta-eu"
    /\ config["api_key_secret"] = "sec_e"

(***************************************************************************)
(* Missing credentials.                                                    *)
(***************************************************************************)
BothKeys(c) == Truthy(Get(c, "api_key_id")) /\ Truthy(Get(c, "api_key_secret"))

NoCredentials == DOMAIN credentials = {}

\* C11: a command obtains credentials exactly when, after the file and the
\* process environment have been merged, both api_key_id and api_key_secret
\* are non-empty; a command without credentials has ended and has issued no
\* request, not even the token exchange.
C11_NoCredentialsNoRequest ==
    pc # "idle" =>
        /\ ~NoCredentials <=> BothKeys(config)
        /\ NoCredentials => pc = "done" /\ reqs = <<>> /\ token = NoToken

\* A command ended without credentials although one of the two key fields
\* was configured.
C11_Witness ==
    /\ pc = "done"
    /\ NoCredentials
    /\ Truthy(Get(config, "api_key_id"))
    /\ ~Truthy(Get(config, "api_key_secret"))
    /\ reqs = <<>>

(***************************************************************************)
(* The configuration store: configure, select, current and clear, run by  *)
(* the program (CLI process or MCP server) and by a second CLI process    *)
(* that shares the configuration file.                                     *)
(***************************************************************************)
MaxCalls == 2    \* ConfigManager calls one exploration goes through

\* Function descriptions as the server returns them, and the body of an
\* error response.
MinimalFunction == [id |-> "fn_a", name |-> "a"]
FullFunction ==
    [id |-> "fn_b", name |-> "b", description |-> "about b",
     current_version_id |-> "v1", site_id |-> "site_f"]
ErrorBody == [error |-> "not found"]
Functions == {MinimalFunction, FullFunction}

\* Answers typed into setup_interactive ("": Enter alone)
Answers ==
    {[api_key_id |-> "", api_key_secret |-> "", site_id |-> "",
      environment |-> ""],
     [api_key_id |-> "kid_n", api_key_secret |-> "sec_n", site_id |-> "",
      environment |-> "staging"],
     [api_key_id |-> "", api_key_secret |-> "", site_id |-> "site_n",
      environment |-> "beta"]}

\* Parameters of configure_glia_functions
ConfigureParams ==
    {[api_key_id |-> "kid_n", api_key_secret |-> "sec_n", site_id |-> NONE,
      environment |-> "production"],
     [api_key_id |-> "kid_n", api_key_secret |-> "sec_n", site_id |-> "site_n",
      environment |-> "staging"]}

StoreOperations == {"configure", "select", "current", "clear"}

\* One ConfigManager call: who made it ("main": the program, "peer"), the
\* method, its argument, what it returned ("raised": an exception), the
\* context get_current_function returned, the clock when it was called,
\* the context held in memory before it, and whether it wrote the file.
Call(who, op, arg, ret, value, at, before, wrote) ==
    [who |-> who, op |-> op, arg |-> arg, ret |-> ret, value |-> value,
     at |-> at, before |-> before, wrote |-> wrote]

Bool(b) == IF b THEN "true" ELSE "false"

Record(cs) == calls \o cs

\* What a handler did: the configuration in memory and the file afterwards,
\* the exit code, the requests it issued and the ConfigManager calls it made.
\* The clock has been read when set_current_function stored a selection.
Selected(cs) == cs # <<>> /\ cs[1].op = "set" /\ cs[1].ret # "raised"

Effect(c, f, code, rq, cs) ==
    [config |-> c, file |-> f, code |-> code, reqs |-> rq, calls |-> cs,
     clock |-> IF Selected(cs)
               THEN c["current_function"].selected_at ELSE clock]

\* ConfigManager.set_current_function(function_data), called at time `at`,
\* time.time() returning `now`.
\* Mutant: the stored entry is emptied first and filled field by field, so a
\* KeyError leaves an entry without the fields not yet reached.
SetCall_field_by_field(who, c, f, function_data, ok, at, now) ==
    IF ~HasIdAndName(function_data)
    THEN [config |-> Put(c, "current_function", <<>>), file |-> f,
          call |-> Call(who, "set", function_data, "raised", <<>>, at,
                        get_current_function(c), FALSE)]
    ELSE LET c1 == set_current_function(c, function_data, now)
         IN  [config |-> c1, file |-> save_config(c1, f, ok),
              call |-> Call(who, "set", function_data, Bool(ok), <<>>, at,
                            get_current_function(c), ok)]

SetCall(who, c, f, function_data, ok, at, now) ==
    IF ~HasIdAndName(function_data)
    THEN [config |-> c, file |-> f,
          call |-> Call(who, "set", function_data, "raised", <<>>, at,
                        get_current_function(c), FALSE)]
    ELSE LET c1 == set_current_function(c, function_data, now)
         IN  [config |-> c1, file |-> save_config(c1, f, ok),
              call |-> Call(who, "set", function_data, Bool(ok), <<>>, at,
                            get_current_function(c), ok)]

\* ConfigManager.clear_current_function()
\* Mutant: a failed save restores the entry that was deleted.
ClearCall_rollback(who, c, f, ok) ==
    IF HasCurrentFunction(c)
    THEN LET c1 == clear_current_function(c)
         IN  [config |-> IF ok THEN c1 ELSE c, file |-> save_config(c1, f, ok),
              call |-> Call(who, "clear", <<>>, Bool(ok), <<>>, clock,
                            get_current_function(c), ok)]
    ELSE [config |-> c, file |-> f,
          call |-> Call(who, "clear", <<>>, "true", <<>>, clock, <<>>, FALSE)]

ClearCall(who, c, f, ok) ==
    IF HasCurrentFunction(c)
    THEN LET c1 == clear_current_function(c)
         IN  [config |-> c1, file |-> save_config(c1, f, ok),
              call |-> Call(who, "clear", <<>>, Bool(ok), <<>>, clock,
                            get_current_function(c), ok)]
    ELSE [config |-> c, file |-> f,
          call |-> Call(who, "clear", <<>>, "true", <<>>, clock, <<>>, FALSE)]

\* main, operation 'configure': setup_interactive, sys.exit(1) on failure
ConfigureHandler(who, c, f, answers, ok) ==
    LET r == setup_interactive(c, answers)
        done == r.saves /\ ok
    IN  Effect(r.config, IF r.saves THEN save_config(r.config, f, ok) ELSE f,
               IF done THEN 0 ELSE 1, <<>>,
               <<Call(who, "configure", <<>>, Bool(done), <<>>, clock,
                      get_current_function(c), done)>>)

\* main, operation 'select', with selectFunction: no credentials or no site
\* id ends the command; getToken and listFunctions exit with 1 on failure;
\* `choice` is the function picked from the list (<<>>: nothing listed, 'q').
SelectHandler(who, c, f, auth, listed, choice, ok, now) ==
    LET env == get_environment(c)
        tokenReq == Request("token", EnvUrl(env), NONE, NA, auth)
        listReq == Request("list", EnvUrl(env), "tok", NA, listed)
    IN  IF DOMAIN get_credentials(c) = {} \/ ~Truthy(Get(c, "site_id"))
        THEN Effect(c, f, 0, <<>>, <<>>)
        ELSE IF raise_for_status(auth) \/ auth # "token"
        THEN Effect(c, f, 1, <<tokenReq>>, <<>>)
        ELSE IF raise_for_status(listed)
        THEN Effect(c, f, 1, <<tokenReq, listReq>>, <<>>)
        ELSE IF DOMAIN choice = {}
        THEN Effect(c, f, 0, <<tokenReq, listReq>>, <<>>)
        ELSE LET r == SetCall(who, c, f, choice, ok, clock, now)
             IN  Effect(r.config, r.file, 0, <<tokenReq, listReq>>, <<r.call>>)

\* main, operation 'current'
CurrentHandler(who, c, f) ==
    Effect(c, f, 0, <<>>,
           <<Call(who, "get", <<>>, "-", get_current_function(c), clock,
                  get_current_function(c), FALSE)>>)

\* main, operation 'clear'
ClearHandler(who, c, f, ok) ==
    LET r == ClearCall(who, c, f, ok)
    IN  Effect(r.config, r.file, 0, <<>>, <<r.call>>)

\* set_current_glia_function (MCP): credentials, getToken, getFunctionInfo
\* (the production URL, the body returned whatever the status), then
\* set_current_function(function_info).
SetCurrentTool(c, f, env, auth, function_info, ok, now) ==
    LET tokenReq == Request("token", EnvUrl(env), NONE, NA, auth)
        infoReq == Request("get_info", ProductionUrl, "tok", NA,
                           IF function_info = ErrorBody
                           THEN "http_error" ELSE "payload")
    IN  IF DOMAIN get_credentials(c) = {}
        THEN Effect(c, f, 1, <<>>, <<>>)
        ELSE IF raise_for_status(auth) \/ auth # "token"
        THEN Effect(c, f, 1, <<tokenReq>>, <<>>)
        ELSE LET r == SetCall("main", c, f, function_info, ok, clock, now)
             IN  Effect(r.config, r.file, IF r.call.ret = "raised" THEN 1 ELSE 0,
                        <<tokenReq, infoReq>>, <<r.call>>)

\* configure_glia_functions (MCP)
ConfigureTool(c, f, params, ok) ==
    LET r == configure_glia_functions(c, params)
    IN  Effect(r.config, IF r.saves THEN save_config(r.config, f, ok) ELSE f,
               IF r.saves THEN 0 ELSE 1, <<>>,
               <<Call("main", "configure", <<>>,
                      IF r.saves THEN Bool(ok) ELSE "raised", <<>>, clock,
                      get_current_function(c), r.saves /\ ok)>>)

\* The handler of the program has run: its effect on the state.
Ran(e) ==
    /\ config' = e.config
    /\ file' = e.file
    /\ reqs' = reqs \o e.reqs
    /\ calls' = Record(e.calls)
    /\ clock' = e.clock
    /\ Terminate(e.code)

\* time.time() inside a call that started at `clock`
Times == {clock, clock + 1}

\* Processes that have loaded the configuration and not yet run their handler.
Pending ==
    (IF pc = "loaded" THEN 1 ELSE 0) + (IF peer.pc = "loaded" THEN 1 ELSE 0)

MayStart == Len(calls) + Pending < MaxCalls

\* CLI: `python glia-function-cli.py <operation>` starts; importing the
\* module runs config_manager = ConfigManager(), which loads the file.
CliLaunch(op) ==
    /\ impl = "cli"
    /\ pc = "idle"
    /\ MayStart
    /\ args' = [NoArgs EXCEPT !.operation = op]
    /\ config' = load_config(file, osenv)
    /\ pc' = "loaded"
    /\ UNCHANGED <<file, peer, clock, calls, osenv, impl, environment,
                   credentials, site_id, function_id, token, reqs, observed,
                   status, refetched, versionId, result, temp_file, exit>>

CliConfigure(answers, ok) ==
    /\ impl = "cli" /\ pc = "loaded" /\ args.operation = "configure"
    /\ Ran(ConfigureHandler("main", config, file, answers, ok))
    /\ UNCHANGED <<peer, osenv, impl, args, environment, credentials,
                   site_id, function_id, token, observed, status, refetched,
                   versionId, result, temp_file>>

CliSelect(auth, listed, choice, ok) ==
    /\ impl = "cli" /\ pc = "loaded" /\ args.operation = "select"
    /\ \E now \in Times :
          Ran(SelectHandler("main", config, file, auth, listed, choice, ok, now))
    /\ UNCHANGED <<peer, osenv, impl, args, environment, credentials,
                   site_id, function_id, token, observed, status, refetched,
                   versionId, result, temp_file>>

CliCurrent ==
    /\ impl = "cli" /\ pc = "loaded" /\ args.operation = "current"
    /\ Ran(CurrentHandler("main", config, file))
    /\ UNCHANGED <<peer, osenv, impl, args, environment, credentials,
                   site_id, function_id, token, observed, status, refetched,
                   versionId, result, temp_file>>

CliClear(ok) ==
    /\ impl = "cli" /\ pc = "loaded" /\ args.operation = "clear"
    /\ Ran(ClearHandler("main", config, file, ok))
    /\ UNCHANGED <<peer, osenv, impl, args, environment, credentials,
                   site_id, function_id, token, observed, status, refetched,
                   versionId, result, temp_file>>

\* MCP tools: the server holds config_manager for its whole life.
McpConfigure(params, ok) ==
    /\ impl = "mcp" /\ pc = "idle" /\ MayStart
    /\ args' = [NoArgs EXCEPT !.operation = "configure"]
    /\ Ran(ConfigureTool(config, file, params, ok))
    /\ UNCHANGED <<peer, osenv, impl, environment, credentials,
                   site_id, function_id, token, observed, status, refetched,
                   versionId, result, temp_file>>

McpSetCurrent(auth, function_info, ok) ==
    /\ impl = "mcp" /\ pc = "idle" /\ MayStart
    /\ args' = [NoArgs EXCEPT !.operation = "select"]
    /\ \E now \in Times :
          Ran(SetCurrentTool(config, file, get_environment(config), auth,
                             function_info, ok, now))
    /\ UNCHANGED <<peer, osenv, impl, environment, credentials,
                   site_id, function_id, token, observed, status, refetched,
                   versionId, result, temp_file>>

McpGetCurrent ==
    /\ impl = "mcp" /\ pc = "idle" /\ MayStart
    /\ args' = [NoArgs EXCEPT !.operation = "current"]
    /\ Ran(CurrentHandler("main", config, file))
    /\ UNCHANGED <<peer, osenv, impl, environment, credentials,
                   site_id, function_id, token, observed, status, refetched,
                   versionId, result, temp_file>>

McpClear(ok) ==
    /\ impl = "mcp" /\ pc = "idle" /\ MayStart
    /\ args' = [NoArgs EXCEPT !.operation = "clear"]
    /\ Ran(ClearHandler("main", config, file, ok))
    /\ UNCHANGED <<peer, osenv, impl, environment, credentials,
                   site_id, function_id, token, observed, status, refetched,
                   versionId, result, temp_file>>

\* The second CLI process: it starts (loading the file), and later its
\* handler runs and the process exits.
PeerLaunch(op) ==
    /\ peer.pc # "loaded"
    /\ MayStart
    /\ peer' = [pc |-> "loaded", operation |-> op,
                config |-> load_config(file, osenv)]
    /\ UNCHANGED <<file, clock, calls, osenv, impl, config, args, pc,
                   environment, credentials, site_id, function_id, token,
                   reqs, observed, status, refetched, versionId, result, temp_file, exit>>

PeerRan(e) ==
    /\ peer' = [pc |-> "exited", operation |-> peer.operation,
                config |-> e.config]
    /\ file' = e.file
    /\ calls' = Record(e.calls)
    /\ clock' = e.clock
    /\ UNCHANGED <<osenv, impl, config, args, pc, environment, credentials,
                   site_id, function_id, token, reqs, observed, status,
                   refetched, versionId, result, temp_file, exit>>

PeerConfigure(answers, ok) ==
    /\ peer.pc = "loaded" /\ peer.operation = "configure"
    /\ PeerRan(ConfigureHandler("peer", peer.config, file, answers, ok))

PeerSelect(choice, ok) ==
    /\ peer.pc = "loaded" /\ peer.operation = "select"
    /\ \E now \in Times :
          PeerRan(SelectHandler("peer", peer.config, file, "token", "payload",
                                choice, ok, now))

PeerClear(ok) ==
    /\ peer.pc = "loaded" /\ peer.operation = "clear"
    /\ PeerRan(ClearHandler("peer", peer.config, file, ok))

Choices == Functions \cup {<<>>}

NextContext ==
    \/ \E op \in StoreOperations : CliLaunch(op)
    \/ \E a \in Answers, ok \in BOOLEAN : CliConfigure(a, ok)
    \/ \E r \in {"token", "http_error"}, l \in {"payload", "http_error"},
          f \in Choices, ok \in BOOLEAN : CliSelect(r, l, f, ok)
    \/ CliCurrent
    \/ \E ok \in BOOLEAN : CliClear(ok)
    \/ \E p \in ConfigureParams, ok \in BOOLEAN : McpConfigure(p, ok)
    \/ \E r \in {"token", "http_error"}, f \in Functions \cup {ErrorBody},
          ok \in BOOLEAN : McpSetCurrent(r, f, ok)
    \/ McpGetCurrent
    \/ \E ok \in BOOLEAN : McpClear(ok)
    \/ \E op \in {"configure", "select", "clear"} : PeerLaunch(op)
    \/ \E a \in Answers, ok \in BOOLEAN : PeerConfigure(a, ok)
    \/ \E f \in Choices, ok \in BOOLEAN : PeerSelect(f, ok)
    \/ \E ok \in BOOLEAN : PeerClear(ok)
    \/ Finish

\* The configurations the store is explored from: nothing configured, the
\* credentials in the process environment only, a configured file with and
\* without a current function.
StoreConfigurations ==
    {<<FileOf(NONE, NONE, NONE, NONE, FALSE),
       OsEnvOf("kid_e", "sec_e", "site_e", "beta")>>,
     <<FileOf("kid_f", "sec_f", "site_f", NONE, FALSE),
       OsEnvOf(NONE, NONE, NONE, NONE)>>,
     <<FileOf("kid_f", "sec_f", "site_f", "beta-eu", TRUE),
       OsEnvOf(NONE, NONE, NONE, NONE)>>}

InitContext ==
    /\ \E fe \in StoreConfigurations : file = fe[1] /\ osenv = fe[2]
    /\ impl \in {"cli", "mcp"}
    /\ config = load_config(file, osenv)
    /\ peer = NoPeer
    /\ clock = 0
    /\ calls = <<>>
    /\ Idle

SpecContext == InitContext /\ [][NextContext]_vars

(***************************************************************************)
(* What reaches the configuration file.                                    *)
(***************************************************************************)
SecretKeys == {"api_key_id", "api_key_secret"}

\* The ConfigManager call made by the step just taken.
Called(op) ==
    /\ calls' # calls
    /\ calls'[Len(calls')].op = op

\* C12: a step that makes api_key_id or api_key_secret appear in the
\* configuration file, or changes the one stored there, is a configure
\* operation; no selection, clear or other command puts a secret on disk.
C12_OnlyConfigureWritesSecrets ==
    [][(\E k \in SecretKeys :
            Truthy(Get(file', k)) /\ Get(file', k) # Get(file, k))
        => Called("configure")]_vars

(***************************************************************************)
(* The function a command targets.                                         *)
(***************************************************************************)
FunctionScoped ==
    args.operation = "update" \/
    (args.operation \in DOMAIN Commands /\ Commands[args.operation].scoped)

\* The handler resolves its function with get_function_id_from_context (CLI)
\* or with  function_id or (get_current_function() or {}).get('id')  (MCP).
Resolves ==
    args.operation = "update" \/ impl = "mcp" \/
    (args.operation \in DOMAIN Commands /\ Commands[args.operation].context)

ExplicitId == args.function_id \notin {NONE, ""}

PersistedId ==
    IF "current_function" \in DOMAIN file
    THEN file["current_function"].id ELSE NONE

\* C13: a command that resolves its function uses the explicit function id
\* when one is given and non-empty, otherwise the id of the persisted
\* current function, otherwise none; and a function-scoped command with
\* neither has failed without issuing any request.
C13_FunctionIdResolution ==
    (pc # "idle" /\ ~NoCredentials /\ FunctionScoped) =>
        /\ Resolves =>
              function_id = (IF ExplicitId THEN args.function_id ELSE PersistedId)
        /\ (~ExplicitId /\ PersistedId = NONE) =>
              Failed /\ reqs = <<>> /\ token = NoToken

\* A command with every other argument given, no explicit function id and
\* no current function has failed before the token exchange.
C13_Witness ==
    /\ Failed
    /\ ~NoCredentials
    /\ FunctionScoped /\ Resolves
    /\ args.operation = "deploy" /\ Truthy(args.extra)
    /\ ~ExplicitId /\ PersistedId = NONE
    /\ function_id = NONE
    /\ reqs = <<>>

\* C14: every function-scoped command run without an explicit function id
\* while a current function is persisted targets the persisted function.
C14_EveryCommandUsesContext ==
    (/\ pc # "idle"
     /\ ~NoCredentials
     /\ FunctionScoped
     /\ ~ExplicitId
     /\ PersistedId # NONE) => function_id = PersistedId

(***************************************************************************)
(* The current function: round trip and frame.                             *)
(***************************************************************************)
ContextFields == {"id", "name", "description", "current_version_id", "site_id"}

\* Positions i where the program called set_current_function and its next
\* ConfigManager call, with no call of the second process in between, was
\* get_current_function.
SetThenGet ==
    {i \in 1..(Len(calls) - 1) :
        /\ calls[i].who = "main" /\ calls[i].op = "set"
        /\ calls[i + 1].who = "main" /\ calls[i + 1].op = "get"}

\* C15 as stated: for every function description f, set(f) followed by get()
\* returns a context equal to f in every field whose selected_at is not
\* earlier than the call of set.
C15_RoundTrip ==
    \A i \in SetThenGet :
        LET f == calls[i].arg
            g == calls[i + 1].value
        IN  /\ \A k \in ContextFields : Get(g, k) = Get(f, k)
            /\ "selected_at" \in DOMAIN g
            /\ g["selected_at"] >= calls[i].at

\* C15: for every function description f that has an id and a name, set(f)
\* followed by get() in the same process, or in a later process when set
\* returned true, returns exactly the fields id, name, current_version_id
\* and site_id of f (null when f lacks them), the description of f or the
\* empty string when f has none, and a selected_at not earlier than the
\* call of set; a selection made before is overwritten.
C15_RoundTripAsBuilt ==
    \A i \in SetThenGet :
        LET f == calls[i].arg
            g == calls[i + 1].value
        IN  (/\ HasIdAndName(f)
             /\ impl = "mcp" \/ calls[i].ret = "true")
            => /\ DOMAIN g = ContextFields \cup {"selected_at"}
               /\ \A k \in ContextFields \ {"description"} : g[k] = Get(f, k)
               /\ g["description"] = GetDefault(f, "description", "")
               /\ g["selected_at"] >= calls[i].at

\* set(f) for a function without description replaced an earlier selection
\* and get() returned f.
C15_Witness ==
    /\ SetThenGet = {1}
    /\ calls[1].arg = MinimalFunction
    /\ calls[1].ret = "true"
    /\ DOMAIN calls[1].before # {}
    /\ calls[1].before["id"] # "fn_a"
    /\ calls[2].value["id"] = "fn_a"

PersistedContext == get_current_function(file)

\* C16: the current function in the configuration file changes only in a
\* step that is a selection, which stores the selected function, or a clear,
\* which removes it; a configure or any other command leaves it as it was.
C16_OnlySelectAndClear ==
    [][PersistedContext' # PersistedContext =>
        \/ /\ Called("set")
           /\ DOMAIN PersistedContext' # {}
           /\ PersistedContext'["id"] = calls'[Len(calls')].arg["id"]
        \/ /\ Called("clear")
           /\ DOMAIN PersistedContext' = {}]_vars

(***************************************************************************)
(* Interruption.                                                           *)
(***************************************************************************)
Interrupted == pc = "interrupted" /\ args.operation = "update"

\* C17: an update that is interrupted, at whatever point, ends with exit
\* code 1; nothing is requested after the interruption, so no deployment
\* follows; and no step of the command, the interruption included, changes
\* the configuration file or the current function stored in it.
C17_InterruptAborts ==
    /\ [](Interrupted => exit = 1)
    /\ [][/\ Interrupted => reqs' \in {reqs, <<>>} /\ pc' = "idle"
          /\ (args.operation = "update" \/ args'.operation = "update")
                => file' = file]_vars

\* The update was interrupted inside the polling loop, after a poll that
\* answered "processing"; no deployment was requested.
C17_Witness ==
    /\ Interrupted
    /\ exit = 1
    /\ Len(observed) >= 1 /\ AllProcessing
    /\ status = "processing"
    /\ NumRequests("deploy") = 0
    /\ "current_function" \in DOMAIN file

(***************************************************************************)
(* Two processes on one configuration file.                                *)
(***************************************************************************)
\* The in-memory configuration of the process that made the latest call.
WriterConfig ==
    IF calls[Len(calls)].who = "main" THEN config ELSE peer.config

\* C18: nothing isolates two processes that share the configuration file:
\* whenever one of them saves, the file becomes exactly the configuration
\* that process holds in memory, whatever another process wrote since it
\* loaded; a change saved in between by the other process is lost.
C18_LastWriterWins ==
    [][(calls' # calls /\ calls'[Len(calls')].wrote) => file' = WriterConfig']_vars

\* The program (CLI) loaded the file, the second process then selected a
\* function and saved it, and the program saved its own change: the file is
\* the program's configuration and the selection is gone.
C18_Witness ==
    /\ impl = "cli"
    /\ Len(calls) = 2
    /\ calls[1].who = "peer" /\ calls[1].op = "set" /\ calls[1].wrote
    /\ calls[2].who = "main" /\ calls[2].op = "configure" /\ calls[2].wrote
    /\ file = config
    /\ PersistedContext = <<>>

(***************************************************************************)
(* Failures of the token exchange and of the endpoints.                    *)
(***************************************************************************)
\* C19: a command issues at most one authentication request; when the
\* response has a non-2xx status, cannot be parsed or lacks the token field,
\* the command has failed with no token and no further request; a token is
\* held only after a 2xx response that contains one.
C19_TokenExchange ==
    /\ NumRequests("token") <= 1
    /\ \A i \in DOMAIN reqs :
          (reqs[i].kind = "token" /\ reqs[i].resp # "token") =>
              /\ token = NoToken
              /\ Failed
              /\ Len(reqs) = i
    /\ token # NoToken =>
          \E i \in DOMAIN reqs : reqs[i].kind = "token" /\ reqs[i].resp = "token"

\* A 2xx response without token field ended the command.
C19_Witness ==
    /\ Failed
    /\ Len(reqs) = 1
    /\ reqs[1].kind = "token" /\ reqs[1].resp = "no_token"
    /\ token = NoToken

\* C20: a non-2xx response from an endpoint is never taken for a result:
\* the command that received it has failed, and the request was its last.
C20_ErrorResponseFails ==
    \A i \in DOMAIN reqs :
        reqs[i].resp = "http_error" => Failed /\ Len(reqs) = i

(***************************************************************************)
(* Exit codes of the CLI.                                                  *)
(***************************************************************************)
\* The required inputs of the command were given.
InputsGiven ==
    IF args.operation = "update"
    THEN Truthy(function_id) /\ args.code /\ Truthy(args.env_file)
    ELSE /\ Truthy(function_id)
         /\ Commands[args.operation].extra => Truthy(args.extra)
         /\ Commands[args.operation].site => Truthy(site_id)

\* C21: the CLI exits with 0 only when the command succeeded; a command
\* that lacked credentials, lacked a required input, failed to authenticate
\* or was interrupted has exit code 1.
C21_ExitCodes ==
    (impl = "cli" /\ pc \in {"done", "interrupted"}) =>
        /\ pc = "interrupted" => exit = 1
        /\ NoCredentials => exit = 1
        /\ (~NoCredentials /\ ~InputsGiven) => exit = 1
        /\ (\E i \in DOMAIN reqs :
                reqs[i].kind = "token" /\ reqs[i].resp # "token") => exit = 1

(***************************************************************************)
(* Environment routing.                                                    *)
(***************************************************************************)
\* The documented base URL of each environment name.
DocumentedUrl(name) ==
    CASE name = "production"    -> "https://api.glia.com"
      [] name = "beta"          -> "https://api.beta.glia.com"
      [] name = "production-eu" -> "https://api.glia.eu"
      [] name = "beta-eu"       -> "https://api.beta.glia.eu"
      [] OTHER                  -> "https://api.glia.com"

\* C22: the token request of a command goes to the documented base URL of
\* the resolved environment name: each of the four names has its own URL,
\* and any other name, an empty one included, is routed to the production
\* URL, the request being issued all the same.
C22_Routing ==
    /\ \A i \in DOMAIN reqs :
          reqs[i].kind = "token" => reqs[i].url = DocumentedUrl(environment)
    /\ (pc \in {"call", "submit"}) => NumRequests("token") = 1

\* A token request was routed for an unknown name and for an empty one
\* (the witness is one of them; both are reachable, see C22_WitnessUnset).
C22_Witness ==
    /\ environment = "staging"
    /\ pc \in {"call", "submit"}
    /\ reqs[1].url = "https://api.glia.com"

C22_WitnessUnset ==
    /\ environment = ""
    /\ pc \in {"call", "submit"}
    /\ reqs[1].url = "https://api.glia.com"

C22_WitnessNamed ==
    /\ environment = "beta-eu"
    /\ pc \in {"call", "submit"}
    /\ reqs[1].url = "https://api.beta.glia.eu"

\* C23: once a command has started, the environment name in the loaded
\* configuration, the one in the configuration file and the one the command
\* passes to its requests are each one of the four names of ENVIRONMENTS.
C23_EnvironmentNames ==
    pc # "idle" =>
        /\ "environment" \in DOMAIN config => config.environment \in EnvNames
        /\ "environment" \in DOMAIN file => file.environment \in EnvNames
        /\ reqs # <<>> => environment \in EnvNames

(***************************************************************************)
(* The result of the update command.                                       *)
(***************************************************************************)
\* The update ended with a deployment request that succeeded.
UpdatedAndDeployed ==
    /\ args.operation = "update"
    /\ pc = "done" /\ exit = 0
    /\ \E i \in DOMAIN reqs : reqs[i].kind = "deploy" /\ reqs[i].resp = "ok"

\* C24: after a successful update and deployment the result handed back
\* holds the final payload of the task (its status and its entity) and the
\* deployment response.
C24_CombinedResult ==
    UpdatedAndDeployed =>
        /\ "deployment" \in DOMAIN result
        /\ result.deployment = DeployBody(versionId)
        /\ Get(result, "status") = refetched.status
        /\ Get(result, "entity") = refetched.entity

(***************************************************************************)
(* When the environment variables are read.                                *)
(***************************************************************************)
\* What the process environment offers for a configuration key.
Offered(k) ==
    IF k = "environment" THEN GetDefault(osenv, "GLIA_ENV", "production")
    ELSE Get(osenv, k)

\* C25: when the file holds a non-empty api_key_id and api_key_secret the
\* loaded configuration is the file and nothing else: a site id or an
\* environment the file lacks stays absent whatever the variables are, the
\* credentials then have no site id and the environment resolves to
\* production.  When the file lacks one of the two, every field the file
\* lacks takes the value of its variable, if that is set.
C25_EnvironmentGate ==
    IF FileHasBothKeys
    THEN /\ config = file
         /\ Resolved =>
               /\ ~Truthy(Get(file, "site_id")) => credentials.site_ids = <<>>
               /\ (args.environment = NONE /\ "environment" \notin DOMAIN file)
                     => environment = "production"
    ELSE \A k \in ConfigKeys :
            ~Truthy(Get(file, k)) =>
                Get(config, k) =
                    (IF Truthy(Offered(k)) THEN Offered(k) ELSE Get(file, k))

\* The file holds both keys and neither site id nor environment; the
\* variables offer both, and neither is used.
C25_Witness ==
    /\ Resolved
    /\ FileHasBothKeys
    /\ DOMAIN file = {"api_key_id", "api_key_secret"}
    /\ Get(osenv, "site_id") = "site_e"
    /\ Get(osenv, "GLIA_ENV") = "beta"
    /\ args.environment = NONE
    /\ environment = "production"
    /\ credentials.site_ids = <<>>

(***************************************************************************)
(* The site of the token and the site of the request.                      *)
(***************************************************************************)
\* C26: the site_ids of a token request are the configured site id (the
\* loaded configuration's, from the file or the environment variable) as a
\* list, empty when there is none, whatever --site_id / site_id says; the
\* create or list request that follows is issued for the override when one
\* is given, otherwise for the configured site.
C26_TokenSites ==
    \A i \in DOMAIN reqs :
       /\ reqs[i].kind = "token" =>
             reqs[i].site_ids = AsList(Get(config, "site_id"))
       /\ reqs[i].kind \in {"create", "list"} =>
             reqs[i].site_id = Or(args.site_id, Get(config, "site_id"))

\* A create for site_o by a client configured for site_f: the token was
\* requested for site_f.
C26_Witness ==
    /\ args.operation = "create"
    /\ args.site_id = "site_o"
    /\ Get(config, "site_id") = "site_f"
    /\ Len(reqs) = 2
    /\ reqs[1].kind = "token" /\ reqs[1].site_ids = <<"site_f">>
    /\ reqs[2].kind = "create" /\ reqs[2].site_id = "site_o"

\* The same with no configured site: the token was requested for no site.
C26_WitnessNoSite ==
    /\ args.operation = "list"
    /\ args.site_id = "site_o"
    /\ ~Truthy(Get(config, "site_id"))
    /\ Len(reqs) = 2
    /\ reqs[1].kind = "token" /\ reqs[1].site_ids = <<>>
    /\ reqs[2].kind = "list" /\ reqs[2].site_id = "site_o"

(***************************************************************************)
(* Payloads that lack a field.                                             *)
(***************************************************************************)
\* The last status poll returned a payload without a status.
StatusAbsent ==
    /\ observed # <<>>
    /\ observed[Len(observed)] # Raises
    /\ observed[Len(observed)].status = NONE

\* The version-creation response carried no task reference.
NoTaskReference ==
    \E i \in DOMAIN reqs :
        reqs[i].kind = "create_version" /\ reqs[i].resp = "no_task"

\* C27: a status poll whose payload has no status ends the loop as a
\* terminal status does: no further status poll is made, the CLI goes on to
\* the re-fetch and the MCP tool returns.  In the CLI a re-fetched payload
\* without an entity ends the command with exit code 1 and no deployment
\* request.  A version-creation response without a task reference ends the
\* CLI command with exit code 1, no poll and no deployment request, while the
\* MCP tool returns that response, without a poll or a deployment request.
C27_MissingFields ==
    /\ StatusAbsent =>
          /\ pc # "poll"
          /\ NumRequests("poll") =
                Len(observed) + (IF refetched = NoPayload THEN 0 ELSE 1)
          /\ IF impl = "cli"
             THEN pc \in {"refetch", "deploy", "done", "interrupted"}
             ELSE pc = "done" /\ exit = 0 /\ NumRequests("deploy") = 0
    /\ (impl = "cli" /\ refetched \notin {NoPayload, Raises}
           /\ refetched.entity = NoEntity) =>
          (pc = "done" /\ exit = 1 /\ NumRequests("deploy") = 0)
    /\ NoTaskReference =>
          /\ pc = "done"
          /\ NumRequests("poll") = 0 /\ NumRequests("deploy") = 0
          /\ IF impl = "cli" THEN exit = 1
             ELSE exit = 0 /\ result = CreationBody("no_task")

\* The CLI left the loop on a payload without a status and then failed on a
\* re-fetched payload without an entity.
C27_Witness ==
    /\ impl = "cli"
    /\ StatusAbsent
    /\ Len(observed) = 2
    /\ refetched \notin {NoPayload, Raises}
    /\ refetched.entity = NoEntity
    /\ pc = "done" /\ exit = 1

\* The MCP tool returned a creation response that names no task.
C27_WitnessNoTask ==
    /\ impl = "mcp"
    /\ NoTaskReference
    /\ pc = "done" /\ exit = 0

(***************************************************************************)
(* The MCP update tool: when it deploys, and its temporary file.           *)
(***************************************************************************)
McpUpdateEnded == impl = "mcp" /\ args.operation = "update" /\ pc = "done"

\* The tool got as far as the version-creation request.
Submitted == NumRequests("create_version") = 1

TaskReferenced ==
    \E i \in DOMAIN reqs :
        reqs[i].kind = "create_version" /\ reqs[i].resp = "task"

EntityIdRead ==
    /\ refetched \notin {NoPayload, Raises}
    /\ refetched.entity \notin {NoEntity, NoId}

C28_WitnessRaised ==
    /\ McpUpdateEnded
    /\ exit = 1
    /\ NumRequests("deploy") = 1
    /\ temp_file = "removed"

(***************************************************************************)
(* Failures of set and clear.                                              *)
(***************************************************************************)
LastCall == calls[Len(calls)]

\* C29: a step in which the program calls set(f) for an f that lacks id or
\* name ends in an exception and changes nothing: the configuration in
\* memory, the current function in it and the configuration file are what
\* they were before the step.
C29_RejectedSetChangesNothing ==
    [][(/\ Called("set")
        /\ calls'[Len(calls')].who = "main"
        /\ ~HasIdAndName(calls'[Len(calls')].arg))
       => /\ calls'[Len(calls')].ret = "raised"
          /\ config' = config
          /\ get_current_function(config') = get_current_function(config)
          /\ file' = file
          /\ exit' = 1]_vars

\* The MCP set-current tool was handed an error body while a function was
\* selected: it raised, and the selection is still there, in memory and in
\* the file.
C29_Witness ==
    /\ calls # <<>>
    /\ LastCall.who = "main" /\ LastCall.op = "set"
    /\ LastCall.arg = ErrorBody
    /\ LastCall.ret = "raised"
    /\ pc = "done" /\ exit = 1
    /\ DOMAIN LastCall.before # {}
    /\ get_current_function(config) = LastCall.before
    /\ PersistedContext = LastCall.before

\* The program's call at position i was followed, in the same MCP server
\* process, by its call of get_current_function.
ThenGet(i) ==
    /\ impl = "mcp"
    /\ i + 1 \in DOMAIN calls
    /\ calls[i].who = "main"
    /\ calls[i + 1].who = "main" /\ calls[i + 1].op = "get"

\* C30: when the file cannot be written, set(f) and clear() return false
\* and the configuration in memory keeps the change:
\* it holds f after the failed set and no current function after the failed
\* clear, and a get() that follows in the same process returns that.
\* clear() with no current function returns true and neither writes the
\* file nor changes the configuration.
C30_FailedSaveKeepsMemory ==
    /\ [][LET call == calls'[Len(calls')]
              had == DOMAIN get_current_function(config) # {}
              has == DOMAIN get_current_function(config') # {}
          IN  /\ (Called("set") /\ call.who = "main" /\ call.ret = "false") =>
                    (/\ ~call.wrote
                     /\ has
                     /\ get_current_function(config').id = call.arg.id)
              /\ (Called("clear") /\ call.who = "main" /\ call.ret = "false") =>
                    (~call.wrote /\ had /\ ~has)
              /\ (Called("clear") /\ call.who = "main" /\ ~had) =>
                    (/\ call.ret = "true"
                     /\ ~call.wrote
                     /\ file' = file
                     /\ config' = config)]_vars
    /\ [](\A i \in DOMAIN calls :
            ThenGet(i) =>
               LET got == calls[i + 1].value
               IN  /\ (calls[i].op = "set" /\ calls[i].ret = "false") =>
                         (DOMAIN got # {} /\ got.id = calls[i].arg.id)
                   /\ (calls[i].op = "clear" /\ calls[i].ret = "false") =>
                         (DOMAIN got = {}))

\* In the MCP server set(f) failed to save while another function was
\* selected; get() returned f.
C30_Witness ==
    /\ ThenGet(1)
    /\ calls[1].op = "set" /\ calls[1].ret = "false"
    /\ DOMAIN calls[1].before # {}
    /\ calls[1].before.id # calls[1].arg.id
    /\ calls[2].value.id = calls[1].arg.id

\* clear() failed to save: get() returned nothing.
C30_WitnessClear ==
    /\ ThenGet(1)
    /\ calls[1].op = "clear" /\ calls[1].ret = "false"
    /\ DOMAIN calls[1].before # {}
    /\ DOMAIN calls[2].value = {}

\* clear() with nothing selected returned true without writing.
C30_WitnessIdempotent ==
    /\ calls # <<>>
    /\ LastCall.who = "main" /\ LastCall.op = "clear"
    /\ LastCall.ret = "true" /\ ~LastCall.wrote
    /\ DOMAIN LastCall.before = {}

====
